---- MODULE Spec2Model ----
(***************************************************************************)
(* A model of the Gamma-Camera-Uniformity program: the DICOM value decoder *)
(* and element stream parser (dicom_functions.py), the volume              *)
(* reconstructor, the image transforms, the interactive session (gui.py)   *)
(* and the uniformity engine (uniformity_functions.py).                    *)
(*                                                                         *)
(* Python values are modelled as tagged records:                           *)
(*   str    [kind |-> "str",   b |-> sequence of character codes]          *)
(*   bytes  [kind |-> "bytes", b |-> sequence of 0..255]                   *)
(*   int    [kind |-> "int",   n |-> integer]                              *)
(*   float  [kind |-> "float", b |-> the big-endian IEEE-754 bytes]        *)
(***************************************************************************)
EXTENDS Integers, Sequences, FiniteSets, TLC

VARIABLES
    \* decode_value(vr, value): one activation chain of the recursion
    d_vr, d_input, d_value, d_depth, d_pc, d_result,
    \* parse_binary(data)
    elems, stream, p_pc, data, parsed_data, image_data, hdr, nread,
    \* decode_image_data(parsed_data, image_data)
    im_meta, im_blob, im_pc, im_volume,
    \* the Gui session
    heap, current_dicom_image, original_dicom_image, cropped_dicom_image,
    combobox_values, select_layer, button, crop_amount,
    \* what the session has done: the contents loaded from the open file, the
    \* smooths and the reduces since the file was opened or last reverted
    loaded, smooths, reduces,
    \* one call of crop or of apply_convolution (dicom_functions.py)
    x_shape, x_fill, x_size, x_pc, x_result,
    \* one UniformityLayer (uniformity_functions.py) and the call made on it
    u_bin, u_rad, u_cropped, u_pc, u_pending, u_results, u_return,
    \* one run of Gui.uniformity_callback: its inputs, its position, the layer
    \* indices still to visit, the slices passed on, the futures in submission order,
    \* the number of them collected, the two result lists and what is displayed
    k_volume, k_amount, k_rad, k_pc, k_cropped, k_todo, k_passed, k_futures,
    k_collected, differential_vals, integral_vals, k_shown

decVars   == <<d_vr, d_input, d_value, d_depth, d_pc, d_result>>
parseVars == <<elems, stream, p_pc, data, parsed_data, image_data, hdr, nread>>
imgVars   == <<im_meta, im_blob, im_pc, im_volume>>
guiVars   == <<heap, current_dicom_image, original_dicom_image, cropped_dicom_image,
               combobox_values, select_layer, button, crop_amount,
               loaded, smooths, reduces>>
xfVars    == <<x_shape, x_fill, x_size, x_pc, x_result>>
ulVars    == <<u_bin, u_rad, u_cropped, u_pc, u_pending, u_results, u_return>>
ucVars    == <<k_volume, k_amount, k_rad, k_pc, k_cropped, k_todo, k_passed, k_futures,
               k_collected, differential_vals, integral_vals, k_shown>>
fnVars    == <<xfVars, ulVars, ucVars>>
vars      == <<decVars, parseVars, imgVars, guiVars, fnVars>>

----------------------------------------------------------------------------
(* Bounds of the model *)

\* longest byte string handed to decode_value (8-byte inputs are added for SV/FD)
MaxValueLen == 4
\* depth at which the Python interpreter stops a recursion with RecursionError
RecursionLimit == 6

----------------------------------------------------------------------------
(* Characters and strings *)

Min(a, b) == IF a <= b THEN a ELSE b
Max(a, b) == IF a >= b THEN a ELSE b

Digits == <<"0", "1", "2", "3", "4", "5", "6", "7", "8", "9">>
Upper  == <<"A", "B", "C", "D", "E", "F", "G", "H", "I", "J", "K", "L", "M",
            "N", "O", "P", "Q", "R", "S", "T", "U", "V", "W", "X", "Y", "Z">>
Lower  == <<"a", "b", "c", "d", "e", "f">>

\* the ASCII code of a character of a literal
Ord(c) ==
    CASE c = " " -> 32
      [] c = "+" -> 43
      [] c = "-" -> 45
      [] c = "_" -> 95
      [] \E i \in 1..10 : Digits[i] = c -> 47 + (CHOOSE i \in 1..10 : Digits[i] = c)
      [] \E i \in 1..26 : Upper[i] = c  -> 64 + (CHOOSE i \in 1..26 : Upper[i] = c)
      [] \E i \in 1..6  : Lower[i] = c  -> 96 + (CHOOSE i \in 1..6 : Lower[i] = c)

\* a string literal, given character by character
Lit(cs) == [i \in 1..Len(cs) |-> Ord(cs[i])]
\* a two-character VR code
V(a, b) == <<Ord(a), Ord(b)>>

RECURSIVE JoinSp(_)
\* " ".join(words)
JoinSp(ws) ==
    IF Len(ws) = 0 THEN <<>>
    ELSE IF Len(ws) = 1 THEN ws[1]
    ELSE ws[1] \o <<32>> \o JoinSp(Tail(ws))

\* Python's `x in s` for strings: x is a contiguous substring of s
IsSubstring(x, s) ==
    \E i \in 0..(Len(s) - Len(x)) : SubSeq(s, i + 1, i + Len(x)) = x

\* Python's s[a:b] and s[a:] for 0 <= a <= b: the bounds are clipped to len(s)
PySlice(s, a, b) == SubSeq(s, Min(a, Len(s)) + 1, Min(b, Len(s)))
PyFrom(s, a)     == SubSeq(s, Min(a, Len(s)) + 1, Len(s))
\* s[:-2]
DropLast2(s)     == SubSeq(s, 1, Max(Len(s) - 2, 0))

PyStr(s)   == [kind |-> "str", b |-> s]
PyBytes(s) == [kind |-> "bytes", b |-> s]
PyInt(n)   == [kind |-> "int", n |-> n]
PyFloat(s) == [kind |-> "float", b |-> s]

\* bytes.hex(): two lowercase hexadecimal digits per byte
HexDigit(n) == IF n < 10 THEN 48 + n ELSE 87 + n
RECURSIVE Hex(_)
Hex(bs) ==
    IF Len(bs) = 0 THEN <<>>
    ELSE <<HexDigit(bs[1] \div 16), HexDigit(bs[1] % 16)>> \o Hex(Tail(bs))

\* bytes.decode("ascii") succeeds iff every byte is below 128
IsAscii(bs) == \A i \in 1..Len(bs) : bs[i] < 128

RECURSIVE from_bytes_little(_)
\* int.from_bytes(value, byteorder="little"): unsigned, any length, 0 when empty
from_bytes_little(bs) ==
    IF Len(bs) = 0 THEN 0 ELSE bs[1] + 256 * from_bytes_little(Tail(bs))

RECURSIVE from_bytes_big(_, _)
from_bytes_big(acc, bs) ==
    IF Len(bs) = 0 THEN acc ELSE from_bytes_big(acc * 256 + bs[1], Tail(bs))

\* struct.unpack(">i" / ">h" / ">q"): two's complement, most significant byte first
unpack_signed_big(bs) ==
    from_bytes_big(IF bs[1] >= 128 THEN bs[1] - 256 ELSE bs[1], Tail(bs))

----------------------------------------------------------------------------
(* int(text) of the Python built-in, base 10 *)

IsSpace(c) == c \in (9..13) \cup (28..32)
IsDigit(c) == c \in 48..57

Strip(s) ==
    LET keep == {i \in 1..Len(s) : ~IsSpace(s[i])}
    IN  IF keep = {} THEN <<>>
        ELSE SubSeq(s, CHOOSE i \in keep : \A j \in keep : i <= j,
                       CHOOSE i \in keep : \A j \in keep : i >= j)

\* digits, with single underscores allowed between two digits
IsIntBody(s) ==
    /\ Len(s) > 0
    /\ \A i \in 1..Len(s) :
          \/ IsDigit(s[i])
          \/ /\ s[i] = 95
             /\ 1 < i /\ i < Len(s)
             /\ IsDigit(s[i - 1]) /\ IsDigit(s[i + 1])

RECURSIVE IntBodyValue(_, _)
IntBodyValue(acc, s) ==
    IF Len(s) = 0 THEN acc
    ELSE IF s[1] = 95 THEN IntBodyValue(acc, Tail(s))
    ELSE IntBodyValue(acc * 10 + (s[1] - 48), Tail(s))

\* [ok |-> whether int(s) succeeds, n |-> its value]
int_of_str(s) ==
    LET t    == Strip(s)
        sgn  == Len(t) > 0 /\ t[1] \in {43, 45}
        body == IF sgn THEN Tail(t) ELSE t
    IN  IF IsIntBody(body)
        THEN [ok |-> TRUE,
              n  |-> IF sgn /\ t[1] = 45 THEN 0 - IntBodyValue(0, body)
                     ELSE IntBodyValue(0, body)]
        ELSE [ok |-> FALSE, n |-> 0]

----------------------------------------------------------------------------
(* decode_value (dicom_functions.py) *)

\* the string literal of `vr in "AE AS CS ..."` in decode_value
TEXT_VRS ==
    JoinSp(<<V("A","E"), V("A","S"), V("C","S"), V("D","A"), V("D","S"), V("D","T"),
             V("L","O"), V("L","T"), V("P","N"), V("S","H"), V("S","T"), V("T","M"),
             V("U","C"), V("U","I"), V("U","R"), V("U","T"), V("U","V")>>)

Ok(v)  == [ok |-> TRUE, val |-> v]
Raised == [ok |-> FALSE, val |-> PyBytes(<<>>)]

\* decode_attempt with UL and US read most significant byte first, like the signed VRs
decode_attempt_be_ul(vr, value) ==
    IF IsSubstring(vr, TEXT_VRS)
    THEN IF IsAscii(value) THEN Ok(PyStr(value)) ELSE Raised
    ELSE CASE vr = V("A","T") -> Ok(PyStr(Hex(value)))
           [] vr = V("F","L") -> IF Len(value) = 4 THEN Ok(PyFloat(value)) ELSE Raised
           [] vr = V("F","D") -> IF Len(value) = 8 THEN Ok(PyFloat(value)) ELSE Raised
           [] vr = V("I","S") ->
                IF IsAscii(value) /\ int_of_str(value).ok
                THEN Ok(PyInt(int_of_str(value).n)) ELSE Raised
           [] vr = V("S","L") ->
                IF Len(value) = 4 THEN Ok(PyInt(unpack_signed_big(value))) ELSE Raised
           [] vr = V("S","S") ->
                IF Len(value) = 2 THEN Ok(PyInt(unpack_signed_big(value))) ELSE Raised
           [] vr = V("S","V") ->
                IF Len(value) = 8 THEN Ok(PyInt(unpack_signed_big(value))) ELSE Raised
           [] vr = V("U","L") -> Ok(PyInt(from_bytes_big(0, value)))
           [] vr = V("U","S") -> Ok(PyInt(from_bytes_big(0, value)))
           [] OTHER -> Ok(PyBytes(value))

\* the body of the try block of decode_value: Ok(value returned), or Raised when a
\* statement of it raises (UnicodeDecodeError, struct.error, ValueError)
decode_attempt(vr, value) ==
    IF IsSubstring(vr, TEXT_VRS)
    THEN IF IsAscii(value) THEN Ok(PyStr(value)) ELSE Raised
    ELSE CASE vr = V("A","T") -> Ok(PyStr(Hex(value)))
           [] vr = V("F","L") -> IF Len(value) = 4 THEN Ok(PyFloat(value)) ELSE Raised
           [] vr = V("F","D") -> IF Len(value) = 8 THEN Ok(PyFloat(value)) ELSE Raised
           [] vr = V("I","S") ->
                IF IsAscii(value) /\ int_of_str(value).ok
                THEN Ok(PyInt(int_of_str(value).n)) ELSE Raised
           [] vr = V("S","L") ->
                IF Len(value) = 4 THEN Ok(PyInt(unpack_signed_big(value))) ELSE Raised
           [] vr = V("S","S") ->
                IF Len(value) = 2 THEN Ok(PyInt(unpack_signed_big(value))) ELSE Raised
           [] vr = V("S","V") ->
                IF Len(value) = 8 THEN Ok(PyInt(unpack_signed_big(value))) ELSE Raised
           [] vr = V("U","L") -> Ok(PyInt(from_bytes_little(value)))
           [] vr = V("U","S") -> Ok(PyInt(from_bytes_little(value)))
           [] OTHER -> Ok(PyBytes(value))

RECURSIVE decode_rec(_, _, _)
\* decode_value as a function of its arguments, for its callers: the value it
\* returns, or RecursionError when the retries reach the interpreter's limit
decode_rec(vr, value, depth) ==
    LET r == decode_attempt(vr, value)
    IN  IF r.ok THEN [err |-> "none", val |-> r.val]
        ELSE IF depth >= RecursionLimit
             THEN [err |-> "RecursionError", val |-> PyBytes(<<>>)]
             ELSE decode_rec(vr, DropLast2(value), depth + 1)

decode_value(vr, value) == decode_rec(vr, value, 1)

(* The recursion of decode_value, one activation per step *)

\* line 27-40: the try block returns
DecodeReturn ==
    /\ d_pc = "call"
    /\ decode_attempt(d_vr, d_value).ok
    /\ d_result' = decode_attempt(d_vr, d_value).val
    /\ d_pc' = "returned"
    /\ UNCHANGED <<d_vr, d_input, d_value, d_depth>>
    /\ UNCHANGED <<parseVars, imgVars, guiVars, fnVars>>

\* line 42-43: the except clause calls decode_value(vr, value[:-2])
DecodeRetry ==
    /\ d_pc = "call"
    /\ ~decode_attempt(d_vr, d_value).ok
    /\ d_depth < RecursionLimit
    /\ d_value' = DropLast2(d_value)
    /\ d_depth' = d_depth + 1
    /\ UNCHANGED <<d_vr, d_input, d_pc, d_result>>
    /\ UNCHANGED <<parseVars, imgVars, guiVars, fnVars>>

\* line 43 at the interpreter's recursion limit: the call raises RecursionError,
\* which leaves every enclosing except clause
DecodeOverflow ==
    /\ d_pc = "call"
    /\ ~decode_attempt(d_vr, d_value).ok
    /\ d_depth >= RecursionLimit
    /\ d_pc' = "RecursionError"
    /\ UNCHANGED <<d_vr, d_input, d_value, d_depth, d_result>>
    /\ UNCHANGED <<parseVars, imgVars, guiVars, fnVars>>

(* Inputs of decode_value *)

ByteAlphabet == {0, 49, 128, 255}

RECURSIVE SeqsUpTo(_, _)
\* the sequences over S of length at most n
SeqsUpTo(S, n) ==
    IF n = 0 THEN {<<>>}
    ELSE LET shorter == SeqsUpTo(S, n - 1)
         IN  shorter \cup {Append(s, x) : s \in {t \in shorter : Len(t) = n - 1}, x \in S}

\* 8-byte inputs: a 4-byte value widened with four bytes 0x00 or four bytes 0xff
WideValues ==
    {pre \o s : pre \in {<<0, 0, 0, 0>>, <<255, 255, 255, 255>>},
                s \in {t \in SeqsUpTo(ByteAlphabet, 4) : Len(t) = 4}}

DecodeValues == SeqsUpTo(ByteAlphabet, MaxValueLen) \cup WideValues

DecodeVRs ==
    {V("P","N"), V("A","T"), V("F","L"), V("F","D"), V("I","S"), V("S","L"),
     V("S","S"), V("S","V"), V("U","L"), V("U","S"), V("O","B"), V("S"," ")}

\* Python integers are unbounded and the checker's are 32 bits wide: the integer
\* inputs are those whose value fits, read in either byte order
FitsUnsigned(v) ==
    \A i \in 1..Len(v) :
        /\ (i >= 4 => v[i] = 0 \/ (i = 4 /\ v[i] < 128))
        /\ (Len(v) - i >= 3 => v[i] = 0 \/ (Len(v) - i = 3 /\ v[i] < 128))
FitsSigned(v) ==
    Len(v) = 8 =>
        \/ \A i \in 1..4 : v[i] = 0 /\ v[5] < 128
        \/ \A i \in 1..4 : v[i] = 255 /\ v[5] >= 128
DecodeInputOK(vr, v) ==
    /\ vr \in {V("U","L"), V("U","S")} => FitsUnsigned(v)
    /\ vr = V("S","V") => FitsSigned(v)

InitDecode ==
    /\ d_vr \in DecodeVRs
    /\ d_input \in DecodeValues
    /\ DecodeInputOK(d_vr, d_input)
    /\ d_value = d_input
    /\ d_depth = 1
    /\ d_pc = "call"
    /\ d_result = PyBytes(<<>>)

IdleDecode ==
    /\ d_vr = <<>> /\ d_input = <<>> /\ d_value = <<>>
    /\ d_depth = 0 /\ d_pc = "idle" /\ d_result = PyBytes(<<>>)

NextDecode == DecodeReturn \/ DecodeRetry \/ DecodeOverflow

----------------------------------------------------------------------------
(* parse_binary (dicom_functions.py) *)

\* the string literal of `vr in "AE AS AT ..."` in parse_binary
SHORT_LENGTH_VRS ==
    JoinSp(<<V("A","E"), V("A","S"), V("A","T"), V("C","S"), V("D","A"), V("D","S"),
             V("D","T"), V("F","L"), V("F","D"), V("I","S"), V("L","O"), V("L","T"),
             V("P","N"), V("S","H"), V("S","L"), V("S","T"), V("S","S"), V("T","M"),
             V("U","I"), V("U","L"), V("U","S")>>)

\* the literal "7fe00010"
PIXEL_DATA_TAG == Lit(<<"7", "f", "e", "0", "0", "0", "1", "0">>)

\* rearrange_tag with the two halves of the tag exchanged instead of the bytes of each
rearrange_tag_halves(tag) ==
    PyFrom(tag, 4) \o PySlice(tag, 0, 4)

\* tag[2:4] + tag[0:2] + tag[6:] + tag[4:6]
rearrange_tag(tag) ==
    PySlice(tag, 2, 4) \o PySlice(tag, 0, 2) \o PyFrom(tag, 6) \o PySlice(tag, 4, 6)

\* whether the VR takes the 2-byte length field: the substring test of line 66
has_short_length(vr) == IsSubstring(vr, SHORT_LENGTH_VRS)

\* lines 62-72 of the loop body: the tag, the VR and the length field of the element
\* at the head of d, and the bytes that follow the length field
read_header(d) ==
    LET tag    == rearrange_tag(Hex(PySlice(d, 0, 4)))
        d1     == PyFrom(d, 4)
        vr     == PySlice(d1, 0, 2)
        d2     == PyFrom(d1, 2)
        short  == has_short_length(vr)
        d3     == IF short THEN d2 ELSE PyFrom(d2, 2)
        width  == IF short THEN 2 ELSE 4
    IN  [tag    |-> tag,
         vr     |-> vr,
         vr_ok  |-> IsAscii(vr),
         form   |-> IF short THEN "short" ELSE "long",
         length |-> from_bytes_little(PySlice(d3, 0, width)),
         rest   |-> PyFrom(d3, width)]

\* the empty list `[]` that image_data holds until the pixel-data element is met
PyEmptyList == [kind |-> "list", b |-> <<>>]

\* hdr: the header read by the latest iteration, and the offset in the stream (after
\* the preamble and the prefix are counted) at which its tag field starts
NoHeader == [at |-> 0, tag |-> <<>>, vr |-> <<>>, vr_ok |-> TRUE, form |-> "none",
             length |-> 0, rest |-> <<>>]

\* lines 56-59: the preamble and the prefix are dropped
ParseStart ==
    /\ p_pc = "start"
    /\ data' = PyFrom(PyFrom(stream, 128), 4)
    /\ parsed_data' = [t \in {} |-> 0]
    /\ image_data' = PyEmptyList
    /\ p_pc' = "loop"
    /\ UNCHANGED <<elems, stream, hdr, nread>>
    /\ UNCHANGED <<decVars, imgVars, guiVars, fnVars>>

\* lines 61-81: one iteration of the while loop
ParseElement ==
    /\ p_pc = "loop"
    /\ Len(data) > 0
    /\ LET h == read_header(data)
           r == decode_value(h.vr, PySlice(h.rest, 0, h.length))
       IN  /\ hdr' = [at |-> Len(stream) - Len(data)] @@ h
           /\ nread' = nread + 1
           /\ IF ~h.vr_ok
              THEN \* line 64: data[:2].decode("ascii") raises UnicodeDecodeError
                   /\ p_pc' = "UnicodeDecodeError"
                   /\ UNCHANGED <<data, parsed_data, image_data>>
              ELSE IF r.err # "none"
              THEN \* line 73: decode_value raises
                   /\ p_pc' = r.err
                   /\ data' = h.rest
                   /\ UNCHANGED <<parsed_data, image_data>>
              ELSE IF h.tag = PIXEL_DATA_TAG
              THEN /\ image_data' = r.val
                   /\ data' = <<>>
                   /\ p_pc' = "annotate"
                   /\ UNCHANGED parsed_data
              ELSE /\ parsed_data' =
                        [t \in DOMAIN parsed_data \cup {h.tag} |->
                            IF t = h.tag
                            THEN [vr |-> h.vr, length |-> h.length, value |-> r.val]
                            ELSE parsed_data[t]]
                   /\ data' = PyFrom(h.rest, h.length)
                   /\ p_pc' = "loop"
                   /\ UNCHANGED image_data
    /\ UNCHANGED <<elems, stream>>
    /\ UNCHANGED <<decVars, imgVars, guiVars, fnVars>>

\* line 61: the stream is used up without a pixel-data element
ParseExhausted ==
    /\ p_pc = "loop"
    /\ Len(data) = 0
    /\ p_pc' = "annotate"
    /\ UNCHANGED <<elems, stream, data, parsed_data, image_data, hdr, nread>>
    /\ UNCHANGED <<decVars, imgVars, guiVars, fnVars>>

\* the content of dicom_elements.json for the tags of the model
Elements ==
    (Lit(<<"0", "0", "2", "8", "0", "0", "1", "0">>) :> "Rows")
    @@ (Lit(<<"0", "0", "1", "0", "0", "0", "1", "0">>) :> "Patient's Name")

\* lines 83-91: every element gets its name, and the function returns
ParseAnnotate ==
    /\ p_pc = "annotate"
    /\ parsed_data' =
          [t \in DOMAIN parsed_data |->
              [vr     |-> parsed_data[t].vr,
               length |-> parsed_data[t].length,
               value  |-> parsed_data[t].value,
               name   |-> IF t \in DOMAIN Elements THEN Elements[t] ELSE "UNKOWN"]]
    /\ p_pc' = "done"
    /\ UNCHANGED <<elems, stream, data, image_data, hdr, nread>>
    /\ UNCHANGED <<decVars, imgVars, guiVars, fnVars>>

NextParse == ParseStart \/ ParseElement \/ ParseExhausted \/ ParseAnnotate

(* Inputs of parse_binary: streams built from known (tag, VR, value) tuples *)

\* most non-pixel elements in a stream
MaxElems == 2
\* most bytes cut from the end of a stream
MaxCut == 3

\* e.tag: the four tag bytes in stream order; e.raw: the value bytes; e.value: the
\* typed value the bytes stand for, or "none" when they are no encoding of one
Elem(tag, vr, raw, value) == [tag |-> tag, vr |-> vr, raw |-> raw, value |-> value]
NoValue == [kind |-> "none", b |-> <<>>]

Catalogue ==
    {Elem(<<40, 0, 16, 0>>,     V("U","S"), <<2, 1>>,            PyInt(258)),
     Elem(<<16, 0, 16, 0>>,     V("P","N"), <<65, 66>>,          PyStr(<<65, 66>>)),
     Elem(<<171, 18, 205, 52>>, V("O","B"), <<1, 2, 255>>,       PyBytes(<<1, 2, 255>>)),
     Elem(<<40, 0, 6, 1>>,      V("S","S"), <<255, 254>>,        PyInt(-2)),
     Elem(<<32, 0, 19, 0>>,     V("I","S"), <<49, 50>>,          PyInt(12)),
     Elem(<<9, 0, 1, 2>>,       V("U","N"), <<>>,                PyBytes(<<>>)),
     \* not well formed: a code that is no VR, a value wider than its VR, an empty
     \* number
     Elem(<<17, 0, 1, 0>>,      V("S"," "), <<65, 66>>,          NoValue),
     Elem(<<40, 0, 7, 1>>,      V("S","S"), <<0, 1, 0, 2>>,      NoValue),
     Elem(<<32, 0, 17, 0>>,     V("I","S"), <<>>,                NoValue)}

PixelCatalogue ==
    {Elem(<<224, 127, 16, 0>>, V("O","W"), <<1, 0, 2, 0>>, PyBytes(<<1, 0, 2, 0>>)),
     Elem(<<224, 127, 16, 0>>, V("O","B"), <<7>>,          PyBytes(<<7>>)),
     Elem(<<224, 127, 16, 0>>, V("U","S"), <<3, 0>>,       PyBytes(<<3, 0>>))}

\* the 21 VRs that the explicit-VR little-endian syntax gives a 2-byte length
ShortFormVRs ==
    {V("A","E"), V("A","S"), V("A","T"), V("C","S"), V("D","A"), V("D","S"),
     V("D","T"), V("F","L"), V("F","D"), V("I","S"), V("L","O"), V("L","T"),
     V("P","N"), V("S","H"), V("S","L"), V("S","T"), V("S","S"), V("T","M"),
     V("U","I"), V("U","L"), V("U","S")}

LE2(n) == <<n % 256, n \div 256>>
LE4(n) == <<n % 256, (n \div 256) % 256, (n \div 65536) % 256, n \div 16777216>>

\* the bytes of one element in the explicit-VR little-endian syntax
Encode(e) ==
    e.tag \o e.vr
    \o (IF e.vr \in ShortFormVRs THEN LE2(Len(e.raw)) ELSE <<0, 0>> \o LE4(Len(e.raw)))
    \o e.raw

RECURSIVE EncodeAll(_)
EncodeAll(es) == IF Len(es) = 0 THEN <<>> ELSE Encode(es[1]) \o EncodeAll(Tail(es))

\* the preamble is not inspected: this one holds the bytes of an element
Preamble ==
    LET e == Encode(Elem(<<8, 0, 96, 0>>, V("C","S"), <<78, 77>>, PyStr(<<78, 77>>)))
    IN  e \o [i \in 1..(128 - Len(e)) |-> 0]
Prefix == <<68, 73, 67, 77>>

\* bytes that may follow the pixel-data element: none, or one more element
Trailers ==
    {<<>>, Encode(Elem(<<8, 0, 8, 0>>, V("C","S"), <<88, 89>>, PyStr(<<88, 89>>)))}

\* the sequences of at most n elements of the catalogue with distinct tags
ElemLists(n) ==
    {es \in SeqsUpTo(Catalogue, n) :
        \A i, j \in 1..Len(es) : i # j => es[i].tag # es[j].tag}

\* the tag of an element as parse_binary keys it
CanonicalTag(e) ==
    Hex(<<e.tag[2], e.tag[1], e.tag[4], e.tag[3]>>)

InitParse ==
    /\ \E es \in ElemLists(MaxElems), px \in SeqsUpTo(PixelCatalogue, 1) :
          elems = es \o px
    /\ \E cut \in 0..MaxCut, tr \in Trailers :
          /\ cut > 0 => tr = <<>>
          /\ LET body == EncodeAll(elems)
             IN  stream = Preamble \o Prefix
                          \o SubSeq(body, 1, Max(Len(body) - cut, 0)) \o tr
    /\ p_pc = "start"
    /\ data = <<>>
    /\ parsed_data = [t \in {} |-> 0]
    /\ image_data = PyEmptyList
    /\ hdr = NoHeader
    /\ nread = 0

IdleParse ==
    /\ elems = <<>> /\ stream = <<>> /\ p_pc = "idle" /\ data = <<>>
    /\ parsed_data = [t \in {} |-> 0] /\ image_data = PyEmptyList
    /\ hdr = NoHeader /\ nread = 0

----------------------------------------------------------------------------
(* decode_image_data (dicom_functions.py) *)

\* longest pixel blob, and largest number of frames, rows or columns
MaxBlob == 6
MaxDim == 2

\* a numpy array of three axes: its shape and its elements, v[frame][row][column]
Array3(shape, v) == [shape |-> shape, v |-> v]
NoArray == Array3(<<0, 0, 0>>, <<>>)

\* line 99: one unsigned little-endian integer per stride of b bytes, for
\* i in range(0, len(image_data), b); the last stride may be shorter than b
samples(blob, b) ==
    [i \in 1..((Len(blob) + b - 1) \div b) |->
        from_bytes_little(PySlice(blob, (i - 1) * b, (i - 1) * b + b))]

\* reshape with the first axis varying fastest (Fortran order)
reshape_column_major(flat, planes, rows, columns) ==
    Array3(<<planes, rows, columns>>,
           [f \in 1..planes |-> [r \in 1..rows |-> [c \in 1..columns |->
               flat[((c - 1) * rows + (r - 1)) * planes + (f - 1) + 1]]]])

\* line 103: np.array(flat).reshape((planes, rows, columns)), defined when
\* len(flat) = planes * rows * columns; the last axis varies fastest
reshape(flat, planes, rows, columns) ==
    Array3(<<planes, rows, columns>>,
           [f \in 1..planes |-> [r \in 1..rows |-> [c \in 1..columns |->
               flat[((f - 1) * rows + (r - 1)) * columns + (c - 1) + 1]]]])

\* line 97: parsed_data["00280100"][2] // 8
bytes_per_sample(bits) == bits \div 8

\* lines 97-105, the whole function
DecodeImage ==
    /\ im_pc = "call"
    /\ LET b    == bytes_per_sample(im_meta.bits)
           flat == samples(im_blob, b)
       IN  IF b = 0
           THEN \* range() with a step of 0 raises ValueError
                /\ im_pc' = "ValueError"
                /\ im_volume' = NoArray
           ELSE IF Len(flat) # im_meta.planes * im_meta.rows * im_meta.columns
           THEN \* reshape raises ValueError
                /\ im_pc' = "ValueError"
                /\ im_volume' = NoArray
           ELSE /\ im_pc' = "returned"
                /\ im_volume' = reshape(flat, im_meta.planes, im_meta.rows,
                                        im_meta.columns)
    /\ UNCHANGED <<im_meta, im_blob>>
    /\ UNCHANGED <<decVars, parseVars, guiVars, fnVars>>

BitDepths == {0, 4, 8, 12, 16, 24}
BlobBytes == {1, 255}

InitImage ==
    /\ im_meta \in [bits : BitDepths, rows : 0..MaxDim, columns : 0..MaxDim,
                    planes : 0..MaxDim]
    /\ im_blob \in SeqsUpTo(BlobBytes, MaxBlob)
    /\ im_pc = "call"
    /\ im_volume = NoArray

IdleImage ==
    /\ im_meta = [bits |-> 0, rows |-> 0, columns |-> 0, planes |-> 0]
    /\ im_blob = <<>> /\ im_pc = "idle" /\ im_volume = NoArray

NextImage == DecodeImage

----------------------------------------------------------------------------
(* The Gui session (gui.py) *)

\* largest crop amount the settings are given (the program accepts 1..99)
MaxCrop == 2
\* most smooths applied between two reverts
MaxSmooths == 2
\* largest layer number that is picked in the combobox or reached with the Right
\* button (the combobox offers 1..39)
MaxLayer == 2
\* the layer numbers the combobox is built with: range(1, 40)
COMBOBOX_LAST == 39

(* numpy arrays.  heap maps a buffer to its elements, v[frame][row][column].  An *)
(* ndarray object names the buffer it reads and, for each axis, the half-open    *)
(* range [lo, hi) of the buffer's (0-based) indices it covers: a slice of an     *)
(* array is a view of the same buffer.                                           *)

Ref(buf, lo, hi) == [buf |-> buf, lo |-> lo, hi |-> hi]
None == Ref(-1, <<0, 0, 0>>, <<0, 0, 0>>)

Shape(a) == [i \in 1..3 |-> a.hi[i] - a.lo[i]]

\* the elements an array object shows
Contents(h, a) ==
    [f \in 1..Shape(a)[1] |-> [r \in 1..Shape(a)[2] |-> [c \in 1..Shape(a)[3] |->
        h[a.buf][a.lo[1] + f][a.lo[2] + r][a.lo[3] + c]]]]

\* the buffers that the given array objects keep alive
Reachable(h, refs) ==
    [b \in {a.buf : a \in refs} \cap DOMAIN h |-> h[b]]

\* a buffer identifier that h does not use
FreshBuffer(h) == CHOOSE b \in 0..Cardinality(DOMAIN h) : b \notin DOMAIN h

\* the index range of array[start:end] on an axis of length n
SliceRange(n, start, end) ==
    LET norm(x) == IF x < 0 THEN Max(x + n, 0) ELSE Min(x, n)
    IN  [lo |-> norm(start), hi |-> Max(norm(end), norm(start))]

\* crop taking the centre of each axis instead of the centre of the first one
crop_per_axis(a, crop_size) ==
    LET rng(i) == SliceRange(Shape(a)[i], Shape(a)[i] \div 2 - crop_size \div 2,
                             Shape(a)[i] \div 2 - crop_size \div 2 + crop_size)
    IN  Ref(a.buf, [i \in 1..3 |-> a.lo[i] + rng(i).lo],
                   [i \in 1..3 |-> a.lo[i] + rng(i).hi])

\* crop (dicom_functions.py): array[start:end, start:end, start:end], a view
crop(a, crop_size) ==
    LET center == Shape(a)[1] \div 2
        start  == center - crop_size \div 2
        end    == start + crop_size
        rng(i) == SliceRange(Shape(a)[i], start, end)
    IN  Ref(a.buf, [i \in 1..3 |-> a.lo[i] + rng(i).lo],
                   [i \in 1..3 |-> a.lo[i] + rng(i).hi])

\* the kernel that the settings hold: [[1,2,1],[2,4,2],[1,2,1]]
CONVOLUTION == <<<<1, 2, 1>>, <<2, 4, 2>>, <<1, 2, 1>>>>

\* convolve2d(slice, kernel, mode='same', boundary='fill', fillvalue=0)
convolve2d(sl, kernel) ==
    LET rows == Len(sl)
        cols == IF rows = 0 THEN 0 ELSE Len(sl[1])
        at(r, c) == IF r \in 1..rows /\ c \in 1..cols THEN sl[r][c] ELSE 0
    IN  [r \in 1..rows |-> [c \in 1..cols |->
            at(r + 1, c + 1) * kernel[1][1] + at(r + 1, c) * kernel[1][2]
            + at(r + 1, c - 1) * kernel[1][3]
            + at(r, c + 1) * kernel[2][1] + at(r, c) * kernel[2][2]
            + at(r, c - 1) * kernel[2][3]
            + at(r - 1, c + 1) * kernel[3][1] + at(r - 1, c) * kernel[3][2]
            + at(r - 1, c - 1) * kernel[3][3]]]

\* apply_convolution writing the smoothed slices into the array it is given
apply_convolution_in_place(h, a, kernel) ==
    LET old == Contents(h, a)
        new == [f \in 1..Len(old) |-> convolve2d(old[f], kernel)]
        inside(f, r, c) ==
            /\ f - 1 \in a.lo[1]..(a.hi[1] - 1)
            /\ r - 1 \in a.lo[2]..(a.hi[2] - 1)
            /\ c - 1 \in a.lo[3]..(a.hi[3] - 1)
        buf == h[a.buf]
    IN  [heap |-> [h EXCEPT ![a.buf] =
                      [f \in 1..Len(buf) |-> [r \in 1..Len(buf[f]) |->
                          [c \in 1..Len(buf[f][r]) |->
                              IF inside(f, r, c)
                              THEN new[f - a.lo[1]][r - a.lo[2]][c - a.lo[3]]
                              ELSE buf[f][r][c]]]]],
         ref  |-> a]

\* apply_convolution (dicom_functions.py): a new array (np.zeros_like) whose slices
\* are the smoothed slices of the given one
apply_convolution(h, a, kernel) ==
    LET old == Contents(h, a)
        nb  == FreshBuffer(h)
    IN  [heap |-> (nb :> [f \in 1..Len(old) |-> convolve2d(old[f], kernel)]) @@ h,
         ref  |-> Ref(nb, <<0, 0, 0>>, Shape(a))]

\* display_image(layer): the exception it raises, "none" when it shows the slice.
\* array[layer - 1] accepts the indices -frames .. frames - 1; np.min of a slice
\* without pixels raises ValueError
display_image(a, layer) ==
    LET frames == Shape(a)[1]
    IN  IF ~(layer - 1 \in (0 - frames)..(frames - 1)) THEN "IndexError"
        ELSE IF Shape(a)[2] = 0 \/ Shape(a)[3] = 0 THEN "ValueError"
        ELSE "none"

\* [str(i) for i in range(from, to)]
LayerNames(from, to) == [i \in 1..(to - from) |-> from + i - 1]

\* the three attributes that hold arrays, and the buffers they keep alive
Collect(h, cur, orig, cropped) ==
    /\ current_dicom_image' = cur
    /\ original_dicom_image' = orig
    /\ cropped_dicom_image' = cropped
    /\ heap' = Reachable(h, {cur, orig, cropped})

Buttons == {"left", "right", "select_layer", "open", "save", "close", "reduce",
            "smooth", "revert", "get_integral", "get_differential", "draw_crop"}

Configure(b, names, state) ==
    [n \in Buttons |-> IF n \in names THEN state ELSE b[n]]

OtherVars == <<decVars, parseVars, imgVars, fnVars>>

\* the volumes of the files that can be opened
FileShapes == {<<2, 2, 2>>, <<3, 3, 3>>}
FileVolume(shape) ==
    [f \in 1..shape[1] |-> [r \in 1..shape[2] |-> [c \in 1..shape[3] |->
        (f + 2 * r + 3 * c) % 4]]]
FileVolumes == {FileVolume(sh) : sh \in FileShapes}
VolumeShape(v) == <<Len(v), Len(v[1]), Len(v[1][1])>>

\* open_button_callback with a file chosen, and fit_dicom_image on the volume that
\* load_dicom_image returns
open_button_callback(volume) ==
    /\ button.open = "normal"
    /\ LET nb   == FreshBuffer(heap)
           cur  == Ref(nb, <<0, 0, 0>>, VolumeShape(volume))
       IN  /\ Collect((nb :> volume) @@ heap, cur, cur, cropped_dicom_image)
           /\ combobox_values' = LayerNames(1, Shape(cur)[1] + 1)
    /\ button' = Configure(Configure(button, {"open"}, "disabled"),
                           {"right", "select_layer", "save", "close", "smooth",
                            "get_integral", "get_differential", "draw_crop"}, "normal")
    /\ select_layer' = 1
    /\ loaded' = volume
    /\ smooths' = 0
    /\ reduces' = 0
    /\ UNCHANGED crop_amount
    /\ UNCHANGED OtherVars

\* close_button_callback, reachable while the Close button is enabled
close_button_callback ==
    /\ button.close = "normal"
    /\ Collect(heap, None, None, cropped_dicom_image)
    /\ combobox_values' = <<>>
    /\ select_layer' = 0
    /\ button' = Configure(Configure(button, {"open"}, "normal"),
                           Buttons \ {"open"}, "disabled")
    /\ loaded' = <<>>
    /\ smooths' = 0
    /\ reduces' = 0
    /\ UNCHANGED crop_amount
    /\ UNCHANGED OtherVars

\* reduce_image
reduce_image ==
    /\ button.reduce = "normal"
    /\ Collect(heap, crop(current_dicom_image, crop_amount), original_dicom_image,
               cropped_dicom_image)
    /\ button' = Configure(Configure(button, {"reduce", "smooth", "left"}, "disabled"),
                           {"revert"}, "normal")
    /\ select_layer' = 1
    /\ combobox_values' = LayerNames(1, crop_amount - 1)
    /\ reduces' = reduces + 1
    /\ UNCHANGED <<crop_amount, loaded, smooths>>
    /\ UNCHANGED OtherVars

\* Gui.apply_convolution leaving the Smooth button as it is
smooth_stays_enabled ==
    /\ button.smooth = "normal"
    /\ smooths < MaxSmooths
    /\ LET res == apply_convolution(heap, current_dicom_image, CONVOLUTION)
           exc == display_image(res.ref, select_layer)
       IN  /\ Collect(res.heap, res.ref, original_dicom_image, cropped_dicom_image)
           /\ button' = IF exc # "none" THEN button
                        ELSE Configure(button, {"reduce", "revert"}, "normal")
    /\ smooths' = smooths + 1
    /\ UNCHANGED reduces
    /\ UNCHANGED <<combobox_values, select_layer, crop_amount, loaded>>
    /\ UNCHANGED OtherVars

\* Gui.apply_convolution; the buttons are configured after display_image, so they
\* keep their states when display_image raises
smooth ==
    /\ button.smooth = "normal"
    /\ smooths < MaxSmooths
    /\ LET res == apply_convolution(heap, current_dicom_image, CONVOLUTION)
           exc == display_image(res.ref, select_layer)
       IN  /\ Collect(res.heap, res.ref, original_dicom_image, cropped_dicom_image)
           /\ button' = IF exc # "none" THEN button
                        ELSE Configure(Configure(button, {"smooth"}, "disabled"),
                                       {"reduce", "revert"}, "normal")
    /\ smooths' = smooths + 1
    /\ UNCHANGED reduces
    /\ UNCHANGED <<combobox_values, select_layer, crop_amount, loaded>>
    /\ UNCHANGED OtherVars

\* revert_changes
revert_changes ==
    /\ button.revert = "normal"
    /\ LET exc == display_image(original_dicom_image, select_layer)
       IN  /\ Collect(heap, original_dicom_image, original_dicom_image,
                      cropped_dicom_image)
           /\ button' = IF exc # "none" THEN button
                        ELSE Configure(Configure(button, {"reduce", "revert"}, "disabled"),
                                       {"smooth"}, "normal")
    /\ smooths' = 0
    /\ reduces' = 0
    /\ UNCHANGED <<combobox_values, select_layer, crop_amount, loaded>>
    /\ UNCHANGED OtherVars

\* left_button_callback; combobox_values[-1] raises IndexError on an empty list, and
\* the closing display_image(int(self.select_layer.get())) changes no attribute
left_button_callback ==
    /\ button.left = "normal"
    /\ LET layer == select_layer - 1
           b1    == IF layer = 1 THEN Configure(button, {"left"}, "disabled") ELSE button
       IN  /\ select_layer' = layer
           /\ IF Len(combobox_values) = 0
              THEN button' = b1
              ELSE button' = IF layer # combobox_values[Len(combobox_values)]
                             THEN Configure(b1, {"right"}, "normal") ELSE b1
    /\ UNCHANGED <<heap, current_dicom_image, original_dicom_image,
                   cropped_dicom_image, combobox_values, crop_amount, loaded, smooths,
                   reduces>>
    /\ UNCHANGED OtherVars

\* right_button_callback
right_button_callback ==
    /\ button.right = "normal"
    /\ select_layer < MaxLayer
    /\ LET layer == select_layer + 1
           b1    == IF layer > 1 THEN Configure(button, {"left"}, "normal") ELSE button
       IN  /\ select_layer' = layer
           /\ IF Len(combobox_values) = 0
              THEN button' = b1
              ELSE button' = IF layer = combobox_values[Len(combobox_values)]
                             THEN Configure(b1, {"right"}, "disabled") ELSE b1
    /\ UNCHANGED <<heap, current_dicom_image, original_dicom_image,
                   cropped_dicom_image, combobox_values, crop_amount, loaded, smooths,
                   reduces>>
    /\ UNCHANGED OtherVars

\* combobox_callback(choice), for a choice of the list the combobox was built with
combobox_callback(choice) ==
    /\ button.select_layer = "normal"
    /\ select_layer' = choice
    /\ IF choice = 1
       THEN button' = Configure(Configure(button, {"left"}, "disabled"),
                                {"right"}, "normal")
       ELSE IF Len(combobox_values) = 0
       THEN button' = button
       ELSE button' = IF choice = combobox_values[Len(combobox_values)]
                      THEN Configure(Configure(button, {"left"}, "normal"),
                                     {"right"}, "disabled")
                      ELSE Configure(button, {"left", "right"}, "normal")
    /\ UNCHANGED <<heap, current_dicom_image, original_dicom_image,
                   cropped_dicom_image, combobox_values, crop_amount, loaded, smooths,
                   reduces>>
    /\ UNCHANGED OtherVars

\* uniformity_callback, as far as the arrays go (lines 228-229): the loop that follows
\* reads slices of the working volume and assigns no attribute
uniformity_callback ==
    /\ button.get_integral = "normal"
    /\ LET smoothed == apply_convolution(heap, current_dicom_image, CONVOLUTION)
           cropped  == crop(current_dicom_image, crop_amount)
       IN  Collect(smoothed.heap, current_dicom_image, original_dicom_image, cropped)
    /\ UNCHANGED <<combobox_values, select_layer, button, crop_amount, loaded, smooths,
                   reduces>>
    /\ UNCHANGED OtherVars

\* change_crop_size_callback with a valid number in the text box
change_crop_size_callback(size) ==
    /\ size > 0 /\ size < 100
    /\ crop_amount' = size
    /\ UNCHANGED <<heap, current_dicom_image, original_dicom_image,
                   cropped_dicom_image, combobox_values, select_layer, button,
                   loaded, smooths, reduces>>
    /\ UNCHANGED OtherVars

InitGui ==
    /\ heap = <<>>
    /\ current_dicom_image = None
    /\ original_dicom_image = None
    /\ cropped_dicom_image = None
    /\ combobox_values = LayerNames(1, COMBOBOX_LAST + 1)
    /\ select_layer = 0
    /\ button = [n \in Buttons |-> IF n = "open" THEN "normal" ELSE "disabled"]
    /\ crop_amount \in 1..MaxCrop
    /\ loaded = <<>>
    /\ smooths = 0
    /\ reduces = 0

IdleGui ==
    /\ heap = <<>> /\ current_dicom_image = None /\ original_dicom_image = None
    /\ cropped_dicom_image = None /\ combobox_values = <<>> /\ select_layer = 0
    /\ button = [n \in Buttons |-> "disabled"] /\ crop_amount = 1 /\ loaded = <<>>
    /\ smooths = 0
    /\ reduces = 0

Open == \E volume \in FileVolumes : open_button_callback(volume)
SelectLayer == \E choice \in 1..Min(MaxLayer, COMBOBOX_LAST) : combobox_callback(choice)
ChangeCropSize == \E size \in 1..MaxCrop : change_crop_size_callback(size)

NextGui ==
    \/ Open
    \/ close_button_callback
    \/ reduce_image
    \/ smooth
    \/ revert_changes
    \/ left_button_callback
    \/ right_button_callback
    \/ SelectLayer
    \/ uniformity_callback
    \/ ChangeCropSize

----------------------------------------------------------------------------
(* crop and apply_convolution, called on their own (dicom_functions.py) *)

\* longest axis of the volumes whose elements the model holds
MaxAxis == 3
\* largest crop size tried on them
MaxSize == 4
\* largest value that fills a uniform volume
MaxFill == 2
\* the arrays given: 2-D and 3-D ones with short axes, and the example's shape
SmallShapes == UNION {[1..n -> 1..MaxAxis] : n \in {2, 3}}
\* a volume of shape (100,100,100) cropped to 40 is the documented example
ExampleShape == <<100, 100, 100>>
ExampleSizes == {40}
IsSmall(shape) == \A i \in 1..Len(shape) : shape[i] <= MaxAxis

\* the elements of a 3-D input: every element its own index f r c ("index"), or
\* every element the same value
InputVolume(shape, fill) ==
    [f \in 1..shape[1] |-> [r \in 1..shape[2] |-> [c \in 1..shape[3] |->
        IF fill.kind = "index" THEN 100 * f + 10 * r + c ELSE fill.v]]]
Fills == {[kind |-> "index", v |-> 0]} \cup [kind : {"uniform"}, v : 0..MaxFill]

NoResult == [kind |-> "none"]
ValueError == [kind |-> "ValueError"]

\* crop(array, crop_size) on an array of the given shape: ValueError unless it has
\* three axes, and no other check
CropCall ==
    /\ x_pc = "call"
    /\ x_pc' = "cropped"
    /\ x_result' = IF Len(x_shape) # 3 THEN ValueError
                   ELSE [kind |-> "array",
                         ref  |-> crop(Ref(0, <<0, 0, 0>>, x_shape), x_size)]
    /\ UNCHANGED <<x_shape, x_fill, x_size>>
    /\ UNCHANGED <<decVars, parseVars, imgVars, guiVars, ulVars, ucVars>>

\* apply_convolution(array, [[1,2,1],[2,4,2],[1,2,1]]) on an array whose elements
\* the model holds
ConvolveCall ==
    /\ x_pc = "call"
    /\ IsSmall(x_shape)
    /\ x_pc' = "smoothed"
    /\ x_result' =
          IF Len(x_shape) # 3 THEN ValueError
          ELSE LET h   == (0 :> InputVolume(x_shape, x_fill))
                   res == apply_convolution(h, Ref(0, <<0, 0, 0>>, x_shape), CONVOLUTION)
               IN  [kind |-> "array", v |-> Contents(res.heap, res.ref),
                    given |-> Contents(res.heap, Ref(0, <<0, 0, 0>>, x_shape))]
    /\ UNCHANGED <<x_shape, x_fill, x_size>>
    /\ UNCHANGED <<decVars, parseVars, imgVars, guiVars, ulVars, ucVars>>

InitTransform ==
    /\ x_shape \in SmallShapes \cup {ExampleShape}
    /\ x_fill \in Fills
    /\ x_size \in 0..MaxSize \cup ExampleSizes
    /\ x_pc = "call"
    /\ x_result = NoResult

IdleTransform ==
    /\ x_shape = <<>> /\ x_fill = [kind |-> "uniform", v |-> 0] /\ x_size = 0
    /\ x_pc = "idle"
    /\ x_result = NoResult


NextTransform ==
    \/ CropCall
    \/ ConvolveCall

----------------------------------------------------------------------------
(* UniformityLayer (uniformity_functions.py) *)

(* Floating-point numbers are modelled as exact fractions.  A grayscale value   *)
(* 0.299 R + 0.587 G + 0.114 B is kept in thousandths, NaN is the value NAN,    *)
(* and a result is                                                              *)
(*   the int 0            [kind |-> "int",   num |-> 0, den |-> 1]              *)
(*   a float              [kind |-> "float", num |-> n, den |-> d]  (n/d, d>0)  *)
(*   the float NaN        [kind |-> "nan"]                                      *)

\* largest circ_rad given to a layer
MaxRad == 2
\* length of the windows that differential scans: x:x + 5
WINDOW == 5

NAN == -1

RECURSIVE Gcd(_, _)
Gcd(a, b) == IF b = 0 THEN a ELSE Gcd(b, a % b)

Int0 == [kind |-> "int", num |-> 0, den |-> 1]
Float(n, d) == LET g == Gcd(n, d) IN [kind |-> "float", num |-> n \div g, den |-> d \div g]
FloatNaN == [kind |-> "nan"]

\* a > b on numbers, as Python compares ints and floats: False when one is NaN
Greater(a, b) ==
    /\ a.kind # "nan" /\ b.kind # "nan"
    /\ a.num * b.den > b.num * a.den
\* max(a, b): the first argument unless the second is greater
PyMax(a, b) == IF Greater(b, a) THEN b ELSE a

\* the first element of a list
first_result(results) == results[1]

\* max(results): the first element that no later element is greater than
RECURSIVE max_from(_, _)
max_from(results, best) ==
    IF results = <<>> THEN best
    ELSE max_from(Tail(results), PyMax(best, results[1]))

list_max(results) == max_from(Tail(results), results[1])

Height(img) == Len(img)
Width(img) == IF Len(img) = 0 THEN 0 ELSE Len(img[1])

\* the mask that crop_to_circle draws: 255 on the pixels that ImageDraw.ellipse fills
\* for the box (cx - r, cy - r, cx + r, cy + r), taken as the pixels within r of the
\* centre (width // 2, height // 2), 0 elsewhere; an inverted box (r < 0) fills none
EllipseMask(height, width, rad) ==
    [y \in 1..height |-> [x \in 1..width |->
        LET dx == (x - 1) - width \div 2
            dy == (y - 1) - height \div 2
        IN  IF rad >= 0 /\ dx * dx + dy * dy <= rad * rad THEN 255 ELSE 0]]

\* crop_to_circle: the RGBA image with the mask as its alpha channel
cropped_data(bin, rad) ==
    [y \in 1..Height(bin) |-> [x \in 1..Width(bin) |->
        [r |-> bin[y][x][1], g |-> bin[y][x][2], b |-> bin[y][x][3],
         a |-> EllipseMask(Height(bin), Width(bin), rad)[y][x]]]]

\* self.cropped_data = None (an image has rows, so no image is the empty sequence)
NoData == <<>>

\* 0.299 R + 0.587 G + 0.114 B of every pixel, masked or not
grayscale_unmasked(cropped) ==
    [y \in 1..Height(cropped) |-> [x \in 1..Width(cropped) |->
        299 * cropped[y][x].r + 587 * cropped[y][x].g + 114 * cropped[y][x].b]]

\* the grayscale array with NaN where alpha is 0
grayscale(cropped) ==
    [y \in 1..Height(cropped) |-> [x \in 1..Width(cropped) |->
        IF cropped[y][x].a = 0 THEN NAN
        ELSE 299 * cropped[y][x].r + 587 * cropped[y][x].g + 114 * cropped[y][x].b]]

\* s[~np.isnan(s)], np.nanmax and np.nanmin of a 1-D array
Valid(s) == SelectSeq(s, LAMBDA v : v # NAN)
SeqMax(s) == CHOOSE m \in {s[i] : i \in 1..Len(s)} : \A i \in 1..Len(s) : s[i] <= m
SeqMin(s) == CHOOSE m \in {s[i] : i \in 1..Len(s)} : \A i \in 1..Len(s) : s[i] >= m

\* the 2-D array as one sequence, row after row
RECURSIVE Flatten(_)
Flatten(rows) == IF rows = <<>> THEN <<>> ELSE rows[1] \o Flatten(Tail(rows))

\* abs((max - min) / ((max + min) / 2) * 100); float division by zero gives NaN for
\* 0 / 0 (and a warning, no exception)
uniformity_ratio(mx, mn) ==
    IF mx + mn = 0 THEN FloatNaN
    ELSE Float(200 * (mx - mn), mx + mn)

\* the same expression without the halving of the sum
uniformity_ratio_of_sum(mx, mn) ==
    IF mx + mn = 0 THEN FloatNaN
    ELSE Float(100 * (mx - mn), mx + mn)

\* UniformityLayer.integral without the halving of max + min
\* integral over the first row of the slice only
integral_of_first_row(cropped) ==
    IF cropped = NoData THEN Int0
    ELSE LET valid == Valid(grayscale(cropped)[1])
         IN  IF Len(valid) = 0 THEN Int0
             ELSE uniformity_ratio(SeqMax(valid), SeqMin(valid))

integral_of_sum(cropped) ==
    IF cropped = NoData THEN Int0
    ELSE LET valid == Valid(Flatten(grayscale(cropped)))
         IN  IF Len(valid) = 0 THEN Int0
             ELSE uniformity_ratio_of_sum(SeqMax(valid), SeqMin(valid))

\* UniformityLayer.integral
integral(cropped) ==
    IF cropped = NoData THEN Int0
    ELSE LET valid == Valid(Flatten(grayscale(cropped)))
         IN  IF Len(valid) = 0 THEN Int0
             ELSE uniformity_ratio(SeqMax(valid), SeqMin(valid))

\* [grayscale[y, x:x + 5] for y in range(shape[0]) for x in range(shape[1] - 4)]
horizontal_slices(gray) ==
    LET per == Max(Width(gray) - (WINDOW - 1), 0)
    IN  [k \in 1..(Height(gray) * per) |->
            LET y == (k - 1) \div per
                x == (k - 1) % per
            IN  [i \in 1..WINDOW |-> gray[y + 1][x + i]]]

\* [grayscale[y:y + 5, x] for x in range(shape[1]) for y in range(shape[0] - 4)]
vertical_slices(gray) ==
    LET per == Max(Height(gray) - (WINDOW - 1), 0)
    IN  [k \in 1..(Width(gray) * per) |->
            LET x == (k - 1) \div per
                y == (k - 1) % per
            IN  [i \in 1..WINDOW |-> gray[y + i][x + 1]]]

\* _calculate_uniformity: the loop over the slices, from max_uniformity on
RECURSIVE calculate_from(_, _)
calculate_from(slices, max_uniformity) ==
    IF slices = <<>> THEN max_uniformity
    ELSE LET valid == Valid(slices[1])
             mx    == SeqMax(valid)
             mn    == SeqMin(valid)
         IN  calculate_from(Tail(slices),
                IF Len(valid) = 0 THEN max_uniformity
                ELSE IF Len(valid) >= 2 /\ mx + mn # 0
                THEN PyMax(max_uniformity, uniformity_ratio(mx, mn))
                ELSE max_uniformity)

_calculate_uniformity(slices) == calculate_from(slices, Int0)

\* UniformityLayer.differential: the maximum of the results of the two scans
differential(cropped) ==
    IF cropped = NoData THEN Int0
    ELSE list_max(<<_calculate_uniformity(horizontal_slices(grayscale(cropped))),
                    _calculate_uniformity(vertical_slices(grayscale(cropped)))>>)

Scans == {"horizontal", "vertical"}
scan_slices(scan, gray) ==
    IF scan = "horizontal" THEN horizontal_slices(gray) ELSE vertical_slices(gray)

\* crop_to_circle; a circ_rad below 0 gives ImageDraw.ellipse an inverted box, for
\* which it raises ValueError or fills nothing, depending on the Pillow release
crop_to_circle ==
    /\ u_pc = "ready" /\ u_cropped = NoData
    /\ \/ u_cropped' = cropped_data(u_bin, u_rad) /\ u_pc' = u_pc
       \/ u_rad < 0 /\ u_cropped' = u_cropped /\ u_pc' = "ValueError"
    /\ UNCHANGED <<u_bin, u_rad, u_pending, u_results, u_return>>
    /\ UNCHANGED <<decVars, parseVars, imgVars, guiVars, xfVars, ucVars>>

\* integral()
integral_call ==
    /\ u_pc = "ready"
    /\ u_pc' = "integral"
    /\ u_return' = integral(u_cropped)
    /\ UNCHANGED <<u_bin, u_rad, u_cropped, u_pending, u_results>>
    /\ UNCHANGED <<decVars, parseVars, imgVars, guiVars, xfVars, ucVars>>

\* differential(), up to the submission of the two scans to the thread pool
differential_call ==
    /\ u_pc = "ready"
    /\ IF u_cropped = NoData
       THEN u_pc' = "differential" /\ u_return' = Int0 /\ u_pending' = u_pending
       ELSE u_pc' = "scanning" /\ u_pending' = Scans /\ u_return' = u_return
    /\ UNCHANGED <<u_bin, u_rad, u_cropped, u_results>>
    /\ UNCHANGED <<decVars, parseVars, imgVars, guiVars, xfVars, ucVars>>

\* one worker thread finishes _calculate_uniformity; as_completed hands its result to
\* the list comprehension
scan_completes(scan) ==
    /\ u_pc = "scanning"
    /\ scan \in u_pending
    /\ u_pending' = u_pending \ {scan}
    /\ u_results' = Append(u_results,
                           _calculate_uniformity(scan_slices(scan, grayscale(u_cropped))))
    /\ UNCHANGED <<u_bin, u_rad, u_cropped, u_pc, u_return>>
    /\ UNCHANGED <<decVars, parseVars, imgVars, guiVars, xfVars, ucVars>>

\* differential(): both futures have been collected, return max(results)
differential_return ==
    /\ u_pc = "scanning"
    /\ u_pending = {}
    /\ u_pc' = "differential"
    /\ u_return' = list_max(u_results)
    /\ UNCHANGED <<u_bin, u_rad, u_cropped, u_pending, u_results>>
    /\ UNCHANGED <<decVars, parseVars, imgVars, guiVars, xfVars, ucVars>>

\* the layers: RGB pixels from a few colours, in rows and columns long enough for
\* two windows and in a square too small for any; and 5 x 5 squares, scanned both
\* ways, that are gray except for one pixel
Colours == {<<0, 0, 0>>, <<1, 1, 1>>, <<0, 1, 0>>}
LayerShapes == {<<1, 6>>, <<6, 1>>, <<2, 2>>}
SpotLayers ==
    {[y \in 1..WINDOW |-> [x \in 1..WINDOW |->
        IF y = sy /\ x = sx THEN c ELSE <<1, 1, 1>>]] :
            sy \in 1..WINDOW, sx \in 1..WINDOW, c \in Colours}
\* 5 x 5 squares with three grayscale levels above 0: green, but white in the centre
\* and red in one other pixel
GradedLayers ==
    {[y \in 1..WINDOW |-> [x \in 1..WINDOW |->
        IF y = sy /\ x = sx THEN <<1, 0, 0>>
        ELSE IF y = 3 /\ x = 3 THEN <<1, 1, 1>> ELSE <<0, 1, 0>>]] :
            sy \in 1..WINDOW, sx \in 1..WINDOW}
Layers ==
    UNION {[1..sh[1] -> [1..sh[2] -> Colours]] : sh \in LayerShapes}
        \cup SpotLayers \cup GradedLayers
Radii == -1..MaxRad

InitLayer ==
    /\ u_bin \in Layers
    /\ u_rad \in Radii
    /\ u_cropped = NoData
    /\ u_pc = "ready"
    /\ u_pending = {}
    /\ u_results = <<>>
    /\ u_return = NoResult

IdleLayer ==
    /\ u_bin = <<>> /\ u_rad = 0 /\ u_cropped = NoData /\ u_pc = "idle"
    /\ u_pending = {} /\ u_results = <<>> /\ u_return = NoResult


ScanCompletes == \E scan \in Scans : scan_completes(scan)

NextLayer ==
    \/ crop_to_circle
    \/ integral_call
    \/ differential_call
    \/ ScanCompletes
    \/ differential_return

----------------------------------------------------------------------------
(* Gui.uniformity_callback, step by step (gui.py) *)

\* most frames of the working volume
MaxFrames == 3
\* largest crop_amount in the settings
MaxAmount == 4

\* range(0, crop_amount - 1, 2)
LayerIndices(amount) == [i \in 1..(amount \div 2) |-> 2 * (i - 1)]

\* the bytes that astype(np.uint8) may give for NaN, which C leaves undefined
NanCast == {0, 255}

\* ((slice - min) / (max - min) * 255).astype(np.uint8): a slice whose pixels are all
\* equal divides 0 by 0 and casts NaN
normalized_slice(sl, nan_byte) ==
    LET all == Flatten(sl)
        mx  == SeqMax(all)
        mn  == SeqMin(all)
    IN  [y \in 1..Len(sl) |-> [x \in 1..Len(sl[y]) |->
            IF mx = mn THEN nan_byte
            ELSE (255 * (sl[y][x] - mn)) \div (mx - mn)]]

\* Image.fromarray(normalized_slice).convert("RGB") as an array; the resampling to
\* the canvas size is left out, a layer has the pixels of its slice
layer_image(norm) == [y \in 1..Len(norm) |-> [x \in 1..Len(norm[y]) |->
                         <<norm[y][x], norm[y][x], norm[y][x]>>]]

\* what a submitted task returns: layer.differential() or layer.integral() of the
\* layer after crop_to_circle
task_result(type, layer, rad) ==
    IF type = "differential" THEN differential(cropped_data(layer, rad))
    ELSE integral(cropped_data(layer, rad))

Future(type, layer) == [type |-> type, layer |-> layer, done |-> FALSE, result |-> NoResult]

NotShown == [shown |-> FALSE]

\* lines 228-235: the two assignments to cropped_dicom_image, the empty lists, and
\* the range of the loop
uc_begin ==
    /\ k_pc = "call"
    /\ LET h        == (0 :> k_volume)
           current  == Ref(0, <<0, 0, 0>>, VolumeShape(k_volume))
           smoothed == apply_convolution(h, current, CONVOLUTION)
           cropped  == crop(current, k_amount)
       IN  k_cropped' = Contents(smoothed.heap, cropped)
    /\ k_todo' = LayerIndices(k_amount)
    /\ k_pc' = "submit"
    /\ UNCHANGED <<k_volume, k_amount, k_rad, k_passed, k_futures, k_collected,
                   differential_vals, integral_vals, k_shown>>
    /\ UNCHANGED <<decVars, parseVars, imgVars, guiVars, xfVars, ulVars>>

\* lines 239-251, one iteration: the frame of current_dicom_image at layer_index is
\* normalized, made a layer and given to two tasks; an index past the last frame
\* raises IndexError
uc_submit(nan_byte) ==
    /\ k_pc = "submit"
    /\ k_todo # <<>>
    /\ LET layer_index == k_todo[1]
       IN  IF layer_index >= Len(k_volume)
           THEN /\ k_pc' = "raising"
                /\ UNCHANGED <<k_todo, k_passed, k_futures>>
           ELSE LET dicom_slice == k_volume[layer_index + 1]
                    layer == layer_image(normalized_slice(dicom_slice, nan_byte))
                IN  /\ k_passed' = Append(k_passed, [index |-> layer_index,
                                                     slice |-> dicom_slice,
                                                     layer |-> layer])
                    /\ k_futures' = k_futures \o <<Future("differential", layer),
                                                    Future("integral", layer)>>
                    /\ k_todo' = Tail(k_todo)
                    /\ k_pc' = k_pc
    /\ UNCHANGED <<k_volume, k_amount, k_rad, k_cropped, k_collected,
                   differential_vals, integral_vals, k_shown>>
    /\ UNCHANGED <<decVars, parseVars, imgVars, guiVars, xfVars, ulVars>>

\* the loop of line 239 ends
uc_submitted ==
    /\ k_pc = "submit"
    /\ k_todo = <<>>
    /\ k_pc' = "collect"
    /\ UNCHANGED <<k_volume, k_amount, k_rad, k_cropped, k_todo, k_passed, k_futures,
                   k_collected, differential_vals, integral_vals, k_shown>>
    /\ UNCHANGED <<decVars, parseVars, imgVars, guiVars, xfVars, ulVars>>

\* a worker process finishes the task of a future
worker_completes(i) ==
    /\ k_pc \in {"submit", "collect", "raising"}
    /\ i \in 1..Len(k_futures)
    /\ ~k_futures[i].done
    /\ k_futures' = [k_futures EXCEPT ![i].done = TRUE,
                        ![i].result = task_result(k_futures[i].type,
                                                  k_futures[i].layer, k_rad)]
    /\ UNCHANGED <<k_volume, k_amount, k_rad, k_pc, k_cropped, k_todo, k_passed,
                   k_collected, differential_vals, integral_vals, k_shown>>
    /\ UNCHANGED <<decVars, parseVars, imgVars, guiVars, xfVars, ulVars>>

\* lines 254-259, one iteration: future.result() of the next future in submission
\* order, which waits until that future is done
uc_collect ==
    /\ k_pc = "collect"
    /\ k_collected < Len(k_futures)
    /\ LET future == k_futures[k_collected + 1]
       IN  /\ future.done
           /\ IF future.type = "differential"
              THEN /\ differential_vals' = Append(differential_vals, future.result)
                   /\ integral_vals' = integral_vals
              ELSE /\ integral_vals' = Append(integral_vals, future.result)
                   /\ differential_vals' = differential_vals
    /\ k_collected' = k_collected + 1
    /\ UNCHANGED <<k_volume, k_amount, k_rad, k_pc, k_cropped, k_todo, k_passed,
                   k_futures, k_shown>>
    /\ UNCHANGED <<decVars, parseVars, imgVars, guiVars, xfVars, ulVars>>

\* the with block is left: the executor's shutdown waits for every future
uc_exit ==
    /\ k_pc = "collect"
    /\ k_collected = Len(k_futures)
    /\ \A i \in 1..Len(k_futures) : k_futures[i].done
    /\ k_pc' = "after"
    /\ UNCHANGED <<k_volume, k_amount, k_rad, k_cropped, k_todo, k_passed, k_futures,
                   k_collected, differential_vals, integral_vals, k_shown>>
    /\ UNCHANGED <<decVars, parseVars, imgVars, guiVars, xfVars, ulVars>>

\* the IndexError leaves the with block once the executor's shutdown has waited for
\* the futures submitted before it, and ends the callback
uc_raise ==
    /\ k_pc = "raising"
    /\ \A i \in 1..Len(k_futures) : k_futures[i].done
    /\ k_pc' = "IndexError"
    /\ UNCHANGED <<k_volume, k_amount, k_rad, k_cropped, k_todo, k_passed, k_futures,
                   k_collected, differential_vals, integral_vals, k_shown>>
    /\ UNCHANGED <<decVars, parseVars, imgVars, guiVars, xfVars, ulVars>>

\* lines 262-263 and display_uniformity: the lists are kept and the labels show
\* max() of each (rounded to 2 decimals on the label)
display_uniformity ==
    /\ k_pc = "after"
    /\ differential_vals # <<>>
    /\ k_shown' = [shown |-> TRUE,
                   differential_uniformity_results |-> differential_vals,
                   differential_label |-> list_max(differential_vals),
                   integral_uniformity_results |-> integral_vals,
                   integral_label |-> list_max(integral_vals)]
    /\ k_pc' = "displayed"
    /\ UNCHANGED <<k_volume, k_amount, k_rad, k_cropped, k_todo, k_passed, k_futures,
                   k_collected, differential_vals, integral_vals>>
    /\ UNCHANGED <<decVars, parseVars, imgVars, guiVars, xfVars, ulVars>>

\* lines 264-265: nothing to display
uc_nothing_to_display ==
    /\ k_pc = "after"
    /\ differential_vals = <<>>
    /\ k_pc' = "done"
    /\ UNCHANGED <<k_volume, k_amount, k_rad, k_cropped, k_todo, k_passed, k_futures,
                   k_collected, differential_vals, integral_vals, k_shown>>
    /\ UNCHANGED <<decVars, parseVars, imgVars, guiVars, xfVars, ulVars>>

\* the working volumes: frames of one row of 6 pixels, black, a step and a slope
Frames == {<<<<0, 0, 0, 0, 0, 0>>>>, <<<<0, 0, 0, 2, 2, 2>>>>, <<<<0, 1, 1, 1, 1, 2>>>>}
WorkingVolumes == UNION {[1..n -> Frames] : n \in 1..MaxFrames}
\* fov_radius of the settings
FovRadii == {2}

InitCallback ==
    /\ k_volume \in WorkingVolumes
    /\ k_amount \in 1..MaxAmount
    /\ k_rad \in FovRadii
    /\ k_pc = "call"
    /\ k_cropped = <<>>
    /\ k_todo = <<>>
    /\ k_passed = <<>>
    /\ k_futures = <<>>
    /\ k_collected = 0
    /\ differential_vals = <<>>
    /\ integral_vals = <<>>
    /\ k_shown = NotShown

IdleCallback ==
    /\ k_volume = <<>> /\ k_amount = 1 /\ k_rad = 0 /\ k_pc = "idle"
    /\ k_cropped = <<>> /\ k_todo = <<>> /\ k_passed = <<>> /\ k_futures = <<>>
    /\ k_collected = 0 /\ differential_vals = <<>> /\ integral_vals = <<>>
    /\ k_shown = NotShown

IdleFn == IdleTransform /\ IdleLayer /\ IdleCallback

Submit == \E nan_byte \in NanCast : uc_submit(nan_byte)
WorkerCompletes == \E i \in 1..Len(k_futures) : worker_completes(i)

NextCallback ==
    \/ uc_begin
    \/ Submit
    \/ uc_submitted
    \/ WorkerCompletes
    \/ uc_collect
    \/ uc_exit
    \/ uc_raise
    \/ display_uniformity
    \/ uc_nothing_to_display

----------------------------------------------------------------------------
(* The session driven by Open, Close, Smooth, Reduce and Revert only (gui.py) *)

\* the volumes of the files that can be opened: every shape up to MaxAxis per axis
ControlShapes == {<<f, r, c>> : f \in 1..MaxAxis, r \in 1..MaxAxis, c \in 1..MaxAxis}
ControlVolumes == {FileVolume(sh) : sh \in ControlShapes}

OpenFile == \E volume \in ControlVolumes : open_button_callback(volume)

NextControls ==
    \/ OpenFile
    \/ close_button_callback
    \/ smooth
    \/ reduce_image
    \/ revert_changes

----------------------------------------------------------------------------
(* Specifications *)

InitSpecDecode == InitDecode /\ IdleParse /\ IdleImage /\ IdleGui /\ IdleFn
SpecDecode == InitSpecDecode /\ [][NextDecode]_vars

InitSpecParse == InitParse /\ IdleDecode /\ IdleImage /\ IdleGui /\ IdleFn
SpecParse == InitSpecParse /\ [][NextParse]_vars

InitSpecImage == InitImage /\ IdleDecode /\ IdleParse /\ IdleGui /\ IdleFn
SpecImage == InitSpecImage /\ [][NextImage]_vars

InitSpecTransform ==
    InitTransform /\ IdleLayer /\ IdleCallback /\ IdleDecode /\ IdleParse /\ IdleImage /\ IdleGui
SpecTransform == InitSpecTransform /\ [][NextTransform]_vars

InitSpecLayer ==
    InitLayer /\ IdleTransform /\ IdleCallback /\ IdleDecode /\ IdleParse /\ IdleImage /\ IdleGui
SpecLayer == InitSpecLayer /\ [][NextLayer]_vars

InitSpecCallback ==
    /\ InitCallback /\ IdleTransform /\ IdleLayer
    /\ IdleDecode /\ IdleParse /\ IdleImage /\ IdleGui
SpecCallback == InitSpecCallback /\ [][NextCallback]_vars

InitSpecControls == InitGui /\ IdleDecode /\ IdleParse /\ IdleImage /\ IdleFn
SpecControls == InitSpecControls /\ [][NextControls]_vars

Init == InitGui /\ IdleDecode /\ IdleParse /\ IdleImage /\ IdleFn
Next == NextGui
Spec == Init /\ [][Next]_vars

----------------------------------------------------------------------------
(* Properties of parse_binary *)

IsPixelElem(e) == e.tag = <<224, 127, 16, 0>>

\* the stream is the preamble, the prefix and the encodings of known well-formed
\* tuples with distinct tags, the last of them the pixel-data element
WellFormedStream ==
    /\ Len(elems) >= 1
    /\ IsPixelElem(elems[Len(elems)])
    /\ \A i \in 1..(Len(elems) - 1) : elems[i].value # NoValue
    /\ stream = Preamble \o Prefix \o EncodeAll(elems)

\* C1: on a well-formed stream parse_binary returns, and the mapping it returns holds
\* exactly the non-pixel elements, each under its tag in canonical form (stream bytes
\* b0 b1 b2 b3 as the hex of b1 b0 b3 b2) with its VR, its declared length and its
\* decoded value
C1_RoundTrip ==
    WellFormedStream =>
        /\ p_pc \in {"start", "loop", "annotate", "done"}
        /\ p_pc = "done" =>
              /\ DOMAIN parsed_data =
                    {CanonicalTag(elems[i]) : i \in 1..(Len(elems) - 1)}
              /\ \A i \in 1..(Len(elems) - 1) :
                    LET got == parsed_data[CanonicalTag(elems[i])]
                    IN  /\ got.vr = elems[i].vr
                        /\ got.length = Len(elems[i].raw)
                        /\ got.value = elems[i].value

C1_Witness ==
    /\ WellFormedStream
    /\ p_pc = "done"
    /\ Len(elems) = 3
    /\ \E i \in 1..2 : elems[i].tag = <<171, 18, 205, 52>>

\* the parser has met the pixel-data element and left the loop through the break
PixelDataReached ==
    p_pc \in {"annotate", "done"} /\ hdr.tag = PIXEL_DATA_TAG

\* C2: once the pixel-data element is met the pixel blob is that element's raw value
\* bytes, undecoded whatever its VR, the pixel-data tag is not in the mapping, and
\* nothing after the element is read
C2_PixelBlobIsRaw ==
    PixelDataReached =>
        /\ image_data = PyBytes(PySlice(hdr.rest, 0, hdr.length))
        /\ PIXEL_DATA_TAG \notin DOMAIN parsed_data
        /\ data = <<>>

\* C3: an element whose declared length exceeds the bytes that remain aborts the
\* parse: the parser neither stores it nor goes on to return
C3_TruncatedStreamAborts ==
    (hdr.form # "none" /\ hdr.length > Len(hdr.rest)) =>
        p_pc \notin {"loop", "annotate", "done"}

\* C5: a 2-character VR takes the 2-byte little-endian length that follows it if and
\* only if it is one of the 21 short-form codes; any other 2-character code takes 2
\* reserved bytes and a 4-byte little-endian length
C5_LengthFormByVR ==
    (hdr.form # "none" /\ Len(hdr.vr) = 2 /\ hdr.at + 12 <= Len(stream)) =>
        LET o == hdr.at
        IN  IF hdr.vr \in ShortFormVRs
            THEN /\ hdr.form = "short"
                 /\ hdr.length = stream[o + 7] + 256 * stream[o + 8]
            ELSE /\ hdr.form = "long"
                 /\ hdr.length = stream[o + 9] + 256 * stream[o + 10]
                                 + 65536 * stream[o + 11] + 16777216 * stream[o + 12]

----------------------------------------------------------------------------
(* Properties of decode_value *)

\* C4: every retry is made on a non-empty input, with its last 2 bytes removed; on an
\* empty input decode_value ends instead of retrying
C4_NoRetryOnEmptyInput ==
    [][d_depth' > d_depth => (d_value # <<>> /\ d_value' = DropLast2(d_value))]_vars

Signed8(b) == IF b >= 128 THEN b - 256 ELSE b

\* C6: on an input of exactly the VR's width, SL, SS and SV give the two's-complement
\* integer read big-endian and UL and US the unsigned integer read little-endian.
\* (The 8-byte inputs are 4-byte values widened by sign extension, so the value of an
\* SV input is that of its last four bytes.)
C6_ByteOrder ==
    LET b == d_input
        width == Len(d_input)
        exact == \/ d_vr = V("S","L") /\ width = 4
                 \/ d_vr = V("S","S") /\ width = 2
                 \/ d_vr = V("S","V") /\ width = 8
                 \/ d_vr \in {V("U","L"), V("U","S")} /\ width \in {2, 4}
        expected ==
            CASE d_vr = V("S","S") -> Signed8(b[1]) * 256 + b[2]
              [] d_vr = V("S","L") ->
                    Signed8(b[1]) * 16777216 + b[2] * 65536 + b[3] * 256 + b[4]
              [] d_vr = V("S","V") ->
                    Signed8(b[5]) * 16777216 + b[6] * 65536 + b[7] * 256 + b[8]
              [] width = 2 -> b[1] + 256 * b[2]
              [] OTHER -> b[1] + 256 * b[2] + 65536 * b[3] + 16777216 * b[4]
    IN  exact =>
            /\ d_depth = 1
            /\ d_pc \in {"call", "returned"}
            /\ d_pc = "returned" => d_result = PyInt(expected)

C6_Witness ==
    /\ d_pc = "returned"
    /\ d_vr = V("S","S")
    /\ d_input = <<255, 49>>
    /\ d_result = PyInt(-207)

----------------------------------------------------------------------------
(* Properties of decode_image_data *)

RECURSIVE UnsignedLE(_, _, _)
\* the unsigned little-endian integer of the n bytes of blob that follow offset
UnsignedLE(blob, offset, n) ==
    IF n = 0 THEN 0
    ELSE blob[offset + 1] + 256 * UnsignedLE(blob, offset + 1, n - 1)

Voxels == im_meta.planes * im_meta.rows * im_meta.columns

\* C7: a volume is returned only when frames * rows * columns * bytes_per_sample is
\* the length of the blob
C7_SizeMismatchFails ==
    im_pc = "returned" =>
        Voxels * bytes_per_sample(im_meta.bits) = Len(im_blob)

\* C8: a bits-allocated value that is not a positive multiple of 8 is refused
C8_BitDepthRefused ==
    (im_meta.bits <= 0 \/ im_meta.bits % 8 # 0) => im_pc # "returned"

\* C9: for a blob of exactly frames * rows * columns * b bytes the call returns, and
\* the voxel (f, r, c) is the unsigned little-endian integer of the blob bytes
\* [b*i, b*i + b), i = (f * rows + r) * columns + c
C9_VoxelLayout ==
    LET b == im_meta.bits \div 8
    IN  (im_pc # "call" /\ b >= 1 /\ Len(im_blob) = Voxels * b) =>
            /\ im_pc = "returned"
            /\ im_volume.shape = <<im_meta.planes, im_meta.rows, im_meta.columns>>
            /\ \A f \in 0..(im_meta.planes - 1), r \in 0..(im_meta.rows - 1),
                  c \in 0..(im_meta.columns - 1) :
                  im_volume.v[f + 1][r + 1][c + 1] =
                      UnsignedLE(im_blob,
                                 b * ((f * im_meta.rows + r) * im_meta.columns + c), b)

C9_Witness ==
    /\ im_pc = "returned"
    /\ im_meta = [bits |-> 8, planes |-> 2, rows |-> 1, columns |-> 2]
    /\ im_blob = <<1, 255, 255, 1>>
    /\ im_volume.v[1][1][2] = 255
    /\ im_volume.v[2][1][1] = 255

----------------------------------------------------------------------------
(* Properties of the session's arrays *)

\* apply_convolution leaves every element of every existing buffer as it was
ConvolutionKeepsBuffers(a) ==
    \A b \in DOMAIN heap : apply_convolution(heap, a, CONVOLUTION).heap[b] = heap[b]

\* crop returns an array object that reads the buffer of the given one
CropIsView(a) ==
    \A size \in 1..MaxCrop : crop(a, size).buf = a.buf

\* C10: while a file is open the original volume has the contents that were loaded,
\* whatever sequence of smooth, reduce, uniformity and navigation operations has run;
\* revert makes the working volume the original one, with the loaded contents; and
\* neither crop nor apply_convolution changes the array it is given: no step changes
\* an element of a buffer that stays alive
C10_OriginalPreserved ==
    /\ [](original_dicom_image # None =>
            /\ Contents(heap, original_dicom_image) = loaded
            /\ ConvolutionKeepsBuffers(current_dicom_image)
            /\ CropIsView(current_dicom_image))
    /\ [][revert_changes =>
            /\ current_dicom_image' = original_dicom_image'
            /\ Contents(heap', current_dicom_image') = loaded]_vars
    /\ [][\A b \in DOMAIN heap \cap DOMAIN heap' : heap'[b] = heap[b]]_vars

\* a session that smoothed, ran a uniformity calculation on the smoothed volume (the
\* view it left in cropped_dicom_image keeps that volume alive), moved off the first
\* layer and reverted
C10_Witness ==
    /\ original_dicom_image # None
    /\ current_dicom_image = original_dicom_image
    /\ Contents(heap, current_dicom_image) = loaded
    /\ button.revert = "disabled" /\ button.smooth = "normal"
    /\ cropped_dicom_image # None
    /\ cropped_dicom_image.buf # original_dicom_image.buf
    /\ cropped_dicom_image.buf \in DOMAIN heap
    /\ Shape(cropped_dicom_image) # Shape(original_dicom_image)
    /\ heap[cropped_dicom_image.buf] =
          [f \in 1..Len(loaded) |-> convolve2d(loaded[f], CONVOLUTION)]
    /\ select_layer > 1

----------------------------------------------------------------------------
(* Properties of the session's controls *)

\* a file is open: fit_dicom_image has set the working volume and close has not
\* cleared it
FileOpen == current_dicom_image # None
\* the frame count of the working volume
FrameCount == Shape(current_dicom_image)[1]

\* C22: while a file is open, whatever navigation, selection, smooth, reduce and
\* revert events came before, the selected layer is one of 1..F, F being the frame
\* count of the working volume, so that display_image finds the frame it shows
C22_LayerWithinVolume ==
    FileOpen =>
        /\ select_layer \in 1..FrameCount
        /\ display_image(current_dicom_image, select_layer) # "IndexError"

----------------------------------------------------------------------------
(* Properties of crop and apply_convolution *)

CropStart == x_shape[1] \div 2 - x_size \div 2
CropEnd == CropStart + x_size

\* the crop size leaves the index range inside every axis
CropInRange ==
    /\ Len(x_shape) = 3
    /\ 0 <= CropStart
    /\ \A i \in 1..3 : CropEnd <= x_shape[i]

\* C11: when 0 <= L/2 - k/2 and L/2 - k/2 + k <= every axis length, crop returns the
\* sub-volume of shape (k, k, k) whose index range on each axis is
\* [L/2 - k/2, L/2 - k/2 + k): its elements are those of the given volume at these
\* indices, and for shape (100,100,100) and k = 40 the indices are 30..69
C11_CentralCrop ==
    (x_pc = "cropped" /\ CropInRange) =>
        /\ x_result.kind = "array"
        /\ Shape(x_result.ref) = <<x_size, x_size, x_size>>
        /\ \A i \in 1..3 : /\ x_result.ref.lo[i] = CropStart
                           /\ x_result.ref.hi[i] = CropEnd
        /\ IsSmall(x_shape) =>
              LET given == InputVolume(x_shape, x_fill)
              IN  Contents((0 :> given), x_result.ref) =
                     [f \in 1..x_size |-> [r \in 1..x_size |-> [c \in 1..x_size |->
                         given[CropStart + f][CropStart + r][CropStart + c]]]]
        /\ (x_shape = ExampleShape /\ x_size \in ExampleSizes) =>
              \A i \in 1..3 : x_result.ref.lo[i] = 30 /\ x_result.ref.hi[i] - 1 = 69

\* the documented example has been cropped
C11_Witness ==
    /\ x_pc = "cropped"
    /\ CropInRange
    /\ x_shape = ExampleShape /\ x_size \in ExampleSizes
    /\ x_result.kind = "array"
    /\ Shape(x_result.ref) = <<40, 40, 40>>

\* C12: when the start index is negative or the end index exceeds an axis length,
\* crop rejects the call with a range error and returns no sub-volume
C12_OutOfRangeRejected ==
    (x_pc = "cropped" /\ Len(x_shape) = 3 /\ ~CropInRange) =>
        x_result.kind = "RangeError"

\* C13: on a volume whose slices all hold one value v, apply_convolution returns a
\* volume of the same shape in which every pixel off the slice borders equals v
C13_UniformInterior ==
    (x_pc = "smoothed" /\ Len(x_shape) = 3 /\ x_fill.kind = "uniform") =>
        /\ x_result.kind = "array"
        /\ Len(x_result.v) = x_shape[1]
        /\ \A f \in 1..x_shape[1] :
              /\ Len(x_result.v[f]) = x_shape[2]
              /\ \A r \in 1..x_shape[2] :
                    /\ Len(x_result.v[f][r]) = x_shape[3]
                    /\ \A c \in 1..x_shape[3] :
                          (r \in 2..(x_shape[2] - 1) /\ c \in 2..(x_shape[3] - 1)) =>
                              x_result.v[f][r][c] = x_fill.v

----------------------------------------------------------------------------
(* Properties of UniformityLayer *)

\* the pixels of the layer, the ones that the mask keeps, and their grayscale values
Pixels == {<<y, x>> : y \in 1..Height(u_bin), x \in 1..Width(u_bin)}
Kept == {p \in Pixels : u_cropped[p[1]][p[2]].a # 0}
GrayAt(bin, p) ==
    299 * bin[p[1]][p[2]][1] + 587 * bin[p[1]][p[2]][2] + 114 * bin[p[1]][p[2]][3]
SetMax(S) == CHOOSE m \in S : \A v \in S : v <= m
SetMin(S) == CHOOSE m \in S : \A v \in S : v >= m
GraysOf(P) == {GrayAt(u_bin, p) : p \in P}

\* the result is the number n / d
IsNumber(res, n, d) == res.kind \in {"int", "float"} /\ res.num * d = n * res.den

\* C14: on a masked slice, integral returns |max - min| / ((max + min) / 2) * 100 over
\* the grayscale values of the non-excluded pixels when there is one and
\* max + min # 0 (so 0 when they are all equal), and 0 when every pixel is excluded
C14_Integral ==
    (u_pc = "integral" /\ u_cropped # NoData) =>
        /\ Kept = {} => IsNumber(u_return, 0, 1)
        /\ (Kept # {} /\ SetMax(GraysOf(Kept)) + SetMin(GraysOf(Kept)) # 0) =>
              LET mx == SetMax(GraysOf(Kept))
                  mn == SetMin(GraysOf(Kept))
              IN  /\ IsNumber(u_return, 200 * (mx - mn), mx + mn)
                  /\ mx = mn => u_return.num = 0

\* integral has returned a positive value for a slice whose excluded pixels hold a
\* value below those of the pixels that the mask keeps
C14_Witness ==
    /\ u_pc = "integral" /\ u_cropped # NoData
    /\ Cardinality(GraysOf(Kept)) >= 2
    /\ SetMin(GraysOf(Kept)) > 0
    /\ \E p \in Pixels \ Kept : GrayAt(u_bin, p) = 0
    /\ u_return.kind = "float" /\ u_return.num > 0

\* C15: when the non-excluded pixels all have grayscale 0 (max + min = 0), integral
\* and differential return a finite number, never NaN
C15_ZeroSumIsSkipped ==
    (/\ u_pc \in {"integral", "differential"}
     /\ u_cropped # NoData
     /\ Kept # {}
     /\ GraysOf(Kept) = {0}) =>
        u_return.kind \in {"int", "float"}

\* the windows of 5 contiguous pixels of a row or of a column
Windows ==
    {{<<y, x + i>> : i \in 0..(WINDOW - 1)} :
        y \in 1..Height(u_bin), x \in 1..(Width(u_bin) - (WINDOW - 1))}
    \cup
    {{<<y + i, x>> : i \in 0..(WINDOW - 1)} :
        y \in 1..(Height(u_bin) - (WINDOW - 1)), x \in 1..Width(u_bin)}

\* the windows with at least 2 non-excluded pixels whose extrema have a ratio
Qualifying ==
    {w \in Windows : /\ Cardinality(w \cap Kept) >= 2
                     /\ SetMax(GraysOf(w \cap Kept)) + SetMin(GraysOf(w \cap Kept)) # 0}

\* the result is at least the ratio of the window, and is the ratio of one
AtLeastRatio(res, w) ==
    LET mx == SetMax(GraysOf(w \cap Kept))
        mn == SetMin(GraysOf(w \cap Kept))
    IN  res.num * (mx + mn) >= 200 * (mx - mn) * res.den
IsRatio(res, w) ==
    LET mx == SetMax(GraysOf(w \cap Kept))
        mn == SetMin(GraysOf(w \cap Kept))
    IN  IsNumber(res, 200 * (mx - mn), mx + mn)

\* C16: differential returns the maximum of |max - min| / ((max + min) / 2) * 100 over
\* the horizontal and vertical windows of 5 contiguous pixels with at least 2
\* non-excluded pixels, and 0 when no window qualifies; it returns after both scans
\* have completed, and the value does not depend on which completed first
C16_Differential ==
    (u_pc = "differential" /\ u_cropped # NoData) =>
        /\ u_pending = {} /\ Len(u_results) = Cardinality(Scans)
        /\ u_return.kind \in {"int", "float"}
        /\ \A w \in Qualifying : AtLeastRatio(u_return, w)
        /\ \/ \E w \in Qualifying : IsRatio(u_return, w)
           \/ IsNumber(u_return, 0, 1)
        /\ Qualifying = {} => IsNumber(u_return, 0, 1)
        /\ u_return = list_max(<<u_results[2], u_results[1]>>)

\* differential has returned the value of the scan that completed last, the other
\* scan having found less
C16_Witness ==
    /\ u_pc = "differential" /\ u_cropped # NoData
    /\ Len(u_results) = 2
    /\ Greater(u_results[2], u_results[1])
    /\ u_return = u_results[2]
    /\ Pixels \ Kept # {}

\* layers of the same size that agree with the layer on every pixel that the mask
\* keeps: the layer with one excluded pixel, or every excluded pixel, in another colour
AgreeInside ==
    {[y \in 1..Height(u_bin) |-> [x \in 1..Width(u_bin) |->
        IF <<y, x>> \in changed THEN c ELSE u_bin[y][x]]] :
            changed \in {{p} : p \in Pixels \ Kept} \cup {Pixels \ Kept}, c \in Colours}

\* what differential() returns for a layer, for either order of completion
differential_values(cropped) ==
    LET h == _calculate_uniformity(horizontal_slices(grayscale(cropped)))
        v == _calculate_uniformity(vertical_slices(grayscale(cropped)))
    IN  {list_max(<<h, v>>), list_max(<<v, h>>)}

\* C17: two slices of the same size and radius that agree on every pixel inside the
\* mask get the same integral and the same differential, whatever the pixels outside
\* the mask hold
C17_OutsideIgnored ==
    (u_pc \in {"integral", "differential"} /\ u_cropped # NoData) =>
        \A b \in AgreeInside :
            IF u_pc = "integral"
            THEN integral(cropped_data(b, u_rad)) = u_return
            ELSE differential_values(cropped_data(b, u_rad)) = {u_return}

\* a metric has been returned for a slice whose pixels outside the mask would raise it
\* if they counted, and another slice differs from it there
C17_Witness ==
    /\ u_pc \in {"integral", "differential"} /\ u_cropped # NoData
    /\ Kept # {} /\ GraysOf(Kept) = {1000}
    /\ \E p \in Pixels \ Kept : GrayAt(u_bin, p) = 0
    /\ Cardinality(AgreeInside) > 1
    /\ IsNumber(u_return, 0, 1)

\* a <= b on two numbers
AtMost(a, b) ==
    /\ a.kind \in {"int", "float"} /\ b.kind \in {"int", "float"}
    /\ a.num * b.den <= b.num * a.den

\* C21: on a masked slice whose non-excluded grayscale values are not all zero (they
\* are never negative), what differential returns is at most what integral returns
\* for the same slice, whichever of the two scans completes first
C21_DifferentialAtMostIntegral ==
    (/\ u_pc \in {"integral", "differential"}
     /\ u_cropped # NoData
     /\ Kept # {}
     /\ \A p \in Kept : GrayAt(u_bin, p) >= 0
     /\ SetMax(GraysOf(Kept)) > 0) =>
        IF u_pc = "differential"
        THEN AtMost(u_return, integral(u_cropped))
        ELSE \A d \in differential_values(u_cropped) : AtMost(d, u_return)

\* differential has returned a positive value below the integral value: no window
\* holds both extrema of the non-excluded pixels
C21_Witness ==
    /\ u_pc = "differential" /\ u_cropped # NoData
    /\ Kept # {} /\ SetMin(GraysOf(Kept)) > 0
    /\ Pixels \ Kept # {}
    /\ Len(u_results) = 2
    /\ u_return.kind = "float" /\ u_return.num > 0
    /\ AtMost(u_return, integral(u_cropped))
    /\ u_return # integral(u_cropped)

----------------------------------------------------------------------------
(* Properties of the names that parse_binary gives *)

\* C19: every element of the mapping that parse_binary returns carries a name: the
\* dictionary's name for its tag when the dictionary has the tag, and the label
\* "UNKNOWN" when it has not
C19_NamesOrUnknown ==
    p_pc = "done" =>
        \A t \in DOMAIN parsed_data :
            parsed_data[t].name = IF t \in DOMAIN Elements THEN Elements[t] ELSE "UNKNOWN"

----------------------------------------------------------------------------
(* Properties of uniformity_callback *)

\* the value is an entry of the sequence, and is a number at least as large as every
\* number of the sequence
IsMaximumOf(value, seq) ==
    /\ \E i \in 1..Len(seq) : seq[i] = value
    /\ \A i \in 1..Len(seq) :
          seq[i].kind # "nan" => (value.kind # "nan" /\ ~Greater(seq[i], value))

\* C18: display_uniformity runs only when every submitted task has completed; each
\* of the two sequences it gets has one entry per selected frame, the i-th being the
\* metric of the i-th selected frame in increasing frame order; and the headline of
\* each metric is the maximum of its sequence
C18_ResultsInFrameOrder ==
    k_shown.shown =>
        /\ \A i \in 1..Len(k_futures) : k_futures[i].done
        /\ Len(k_passed) = Len(LayerIndices(k_amount))
        /\ Len(k_shown.differential_uniformity_results) = Len(k_passed)
        /\ Len(k_shown.integral_uniformity_results) = Len(k_passed)
        /\ \A i \in 1..Len(k_passed) :
              /\ k_passed[i].index = LayerIndices(k_amount)[i]
              /\ k_shown.differential_uniformity_results[i] =
                    task_result("differential", k_passed[i].layer, k_rad)
              /\ k_shown.integral_uniformity_results[i] =
                    task_result("integral", k_passed[i].layer, k_rad)
        /\ IsMaximumOf(k_shown.differential_label, k_shown.differential_uniformity_results)
        /\ IsMaximumOf(k_shown.integral_label, k_shown.integral_uniformity_results)

\* the volume that smoothing and the central crop make of the working volume
SmoothedAndCropped ==
    LET current  == Ref(0, <<0, 0, 0>>, VolumeShape(k_volume))
        smoothed == apply_convolution((0 :> k_volume), current, CONVOLUTION)
    IN  Contents(smoothed.heap, crop(smoothed.ref, k_amount))

\* C20: every slice that uniformity_callback passes to the uniformity engine is the
\* frame, at the selected index, of the volume obtained by smoothing and cropping the
\* working volume, and every selected index is an index of that volume
C20_SlicesOfCroppedVolume ==
    \A i \in 1..Len(k_passed) :
        /\ k_passed[i].index < Len(SmoothedAndCropped)
        /\ k_passed[i].slice = SmoothedAndCropped[k_passed[i].index + 1]

====
